---- MODULE Spec2Model ----
(***************************************************************************)
(* The SQL-RAG agent of rag_excel_postgres/agent: the LangGraph workflow   *)
(* built by AgentGraph._build_graph (graph.py), its nine nodes (nodes.py), *)
(* its three routers (edges.py) and the conversation store                 *)
(* (conversation_manager.py).  One action per node; the router that        *)
(* follows a node is part of that node's action.  The four services behind *)
(* the tool facade (query generation, query execution, answer formatting,  *)
(* query reformulation) are nondeterministic: each call draws its outcome. *)
(*                                                                         *)
(* Texts the code inspects character by character (the question, the       *)
(* generated SQL) are sequences of one-character strings.  Messages the    *)
(* code only builds and passes on are TLA+ strings.  The metadata field    *)
(* (timestamps) and raw_data_summary's text are not part of any routing    *)
(* decision; metadata is left out.                                         *)
(***************************************************************************)
EXTENDS Integers, Sequences, FiniteSets, TLC

\* ------------------------------------------------------------------ values

\* Python's None in a field that holds a message (error, error_type, ...).
None == "None"
\* Python's None in a field that holds a text (generated_sql, first_formatted_query).
NoText == <<"None">>

\* ------------------------------------------------------------------ bounds

\* Rows an execution result can hold.
MaxRows == 1

\* Invocations made one after another on the same store.
MaxTurns == 5

\* Characters in a question given to validate_input on its own.
MaxQuestionLen == 3
MaxRetryTurns == 2

\* ------------------------------------------------------------------ text

Lower == <<"a","b","c","d","e","f","g","h","i","j","k","l","m",
           "n","o","p","q","r","s","t","u","v","w","x","y","z">>
Uppers == <<"A","B","C","D","E","F","G","H","I","J","K","L","M",
            "N","O","P","Q","R","S","T","U","V","W","X","Y","Z">>
Digits == {"0","1","2","3","4","5","6","7","8","9"}
Whitespace == {" "}

Range(f) == {f[i] : i \in DOMAIN f}

\* str.upper() on one character.
UpperOf(c) ==
    IF \E i \in DOMAIN Lower : Lower[i] = c
    THEN Uppers[CHOOSE i \in DOMAIN Lower : Lower[i] = c]
    ELSE c

\* str.upper()
upper(s) == [i \in 1..Len(s) |-> UpperOf(s[i])]

\* str.lstrip() / str.rstrip() / str.strip(): whitespace off both ends.
RECURSIVE lstrip(_)
lstrip(s) ==
    IF s # <<>> /\ Head(s) \in Whitespace THEN lstrip(Tail(s)) ELSE s

RECURSIVE rstrip(_)
rstrip(s) ==
    IF s # <<>> /\ s[Len(s)] \in Whitespace
    THEN rstrip(SubSeq(s, 1, Len(s) - 1))
    ELSE s

strip(s) == rstrip(lstrip(s))

\* str.startswith(p)
startswith(s, p) == Len(s) >= Len(p) /\ SubSeq(s, 1, Len(p)) = p

\* Python's `p in s` on strings: p occurs in s at some offset.
RECURSIVE contains(_, _)
contains(s, p) ==
    IF Len(s) < Len(p) THEN FALSE
    ELSE IF SubSeq(s, 1, Len(p)) = p THEN TRUE
    ELSE contains(Tail(s), p)

\* The characters re.sub(r'[^\w\s\?\.\,\'\"]', '', q) keeps.
KeptChar(c) ==
    \/ c \in Range(Lower) \cup Range(Uppers) \cup Digits \cup {"_"}
    \/ c \in Whitespace
    \/ c \in {"?", ".", ",", "'", "\""}

\* re.sub(r'[^\w\s\?\.\,\'\"]', '', q): every other character removed.
re_sub(q) == SelectSeq(q, KeptChar)

\* Python truthiness of an Optional[str] text: neither None nor "".
Truthy(t) == t # NoText /\ t # <<>>

\* ------------------------------------------------------------- the inputs

sp == <<" ">>
w_select == <<"s","e","l","e","c","t">>
w_Select == <<"S","e","l","e","c","t">>
w_from == <<"f","r","o","m">>
w_From == <<"F","r","o","m">>
w_table == <<"r","e","p","o","r","t","s","_","m","a","s","t","e","r">>
w_Table == <<"R","E","P","O","R","T","S","_","M","A","S","T","E","R">>
w_other == <<"t","a","b">>
w_col == <<"k","e","y","w","o","r","d">>
w_updated_at == <<"u","p","d","a","t","e","d","_","a","t">>
w_drop == <<"d","r","o","p">>
w_with == <<"w","i","t","h">>
w_semi == <<";">>

\* Texts the query-generation service may return.
SqlGood == w_select \o sp \o w_col \o sp \o w_from \o sp \o w_table
SqlGoodMixed == sp \o w_Select \o sp \o w_col \o sp \o w_From \o sp \o w_Table \o sp
SqlUpdatedAt == w_select \o sp \o w_updated_at \o sp \o w_from \o sp \o w_table
SqlEmpty == <<>>

\* The texts the query-generation service returns in Spec: one the validator
\* accepts, one with a blocklisted keyword, and the empty text.
SqlTexts == {SqlGoodMixed, SqlUpdatedAt, SqlEmpty}

\* The questions a caller may pass to invoke.
Questions == {<<" ">>, <<"a">>, <<" ", "a", "!">>}

\* The texts the reformulation service may make of a question: a corrected
\* one, and one the sanitizer empties.
Reformulations == {<<"b">>, <<"!">>}

\* The session ids a caller may pass to invoke (None: a new session).
SessionIds == {"s1"}

\* uuid-based ids of generate_session_id, one per turn.
FreshId(n) == "session_" \o ToString(n)

\* ------------------------------------------------------------------ state

VARIABLES
    pc,        \* the node the driver runs next; "idle", "END" or "raised"
    prev,      \* the node the driver ran last
    state,     \* the AgentState of the running invocation
    store,     \* the conversation_history table, in insertion order
    turn,      \* invocations started so far
    visits,    \* node visits of the running invocation
    calls,     \* calls made to each service in the running invocation
    roundGen,  \* generation-service calls in the current formatting round
    execArg,   \* the SQL given to the last execution-service call
    lastExec,  \* what the execution service did in the step just taken
    saveArg,   \* the query given to the last append of the conversation store
    genSeen,   \* the kinds of outcome the generation service had in this invocation
    execSeen,  \* the kinds of outcome the execution service had in this invocation
    histRead,  \* what the store's read did in the step just taken
    sqlFresh,  \* generated_sql was returned by the generation service since
               \* the last call of the execution service
    earlier,   \* how the previous invocation ended
    parked     \* a second driver run, while it is not the one taking steps

vars ==
    <<pc, prev, state, store, turn, visits, calls, roundGen, execArg, lastExec,
      saveArg, genSeen, execSeen, histRead, sqlFresh, earlier, parked>>

NoCalls ==
    [gen |-> 0, exec |-> 0, format_query |-> 0, reformat_query |-> 0,
     answer |-> 0, save |-> 0, history |-> 0]

\* A node's partial dict merged into the state: the keys it returns overwrite.
Merge(s, update) == update @@ s

\* query_result before any execution (None).
NoResult == [kind |-> "None", rows |-> 0]

\* The str(e) of an exception raised by a service.
ExcText == "exc"

\* AgentGraph.invoke: the initial state of an invocation.
initial_state(user_query, session_id, fresh) ==
    [user_query |-> user_query,
     original_query |-> user_query,
     session_id |-> IF session_id = None THEN fresh ELSE session_id,
     query_formatting_attempt |-> 0,
     first_formatted_query |-> NoText,
     generated_sql |-> NoText,
     sql_generation_attempts |-> 0,
     sql_generation_error |-> None,
     sql_valid |-> FALSE,
     query_result |-> NoResult,
     execution_error |-> None,
     execution_success |-> FALSE,
     execution_retry_count |-> 0,
     formatted_answer |-> None,
     raw_data_summary |-> None,
     conversation_history |-> <<>>,
     error |-> None,
     error_type |-> None]

\* ------------------------------------------------- the conversation store

Reverse(s) == [i \in 1..Len(s) |-> s[Len(s) + 1 - i]]

Min(a, b) == IF a <= b THEN a ELSE b

\* get_recent_conversations that takes the oldest `limit` rows of the session.
get_recent_conversations_oldest(db, ok, session_id, limit) ==
    IF ~ok THEN <<>>
    ELSE LET Mine(r) == r.session_id = session_id
             mine == SelectSeq(db, Mine)
             rows == SubSeq(mine, 1, Min(limit, Len(mine)))
         IN  [i \in 1..Len(rows) |->
                 [user_query |-> rows[i].user_query,
                  system_response |-> rows[i].system_response]]

\* get_recent_conversations without the WHERE session_id clause.
get_recent_conversations_any_session(db, ok, session_id, limit) ==
    IF ~ok THEN <<>>
    ELSE LET newestFirst == Reverse(db)
             results == SubSeq(newestFirst, 1, Min(limit, Len(newestFirst)))
             rows == Reverse(results)
         IN  [i \in 1..Len(rows) |->
                 [user_query |-> rows[i].user_query,
                  system_response |-> rows[i].system_response]]

\* ConversationManager.get_recent_conversations: the newest `limit` rows of the
\* session, oldest first; [] when the database fails.
get_recent_conversations(db, ok, session_id, limit) ==
    IF ~ok THEN <<>>
    ELSE LET Mine(r) == r.session_id = session_id
             newestFirst == Reverse(SelectSeq(db, Mine))
             results == SubSeq(newestFirst, 1, Min(limit, Len(newestFirst)))
             rows == Reverse(results)
         IN  [i \in 1..Len(rows) |->
                 [user_query |-> rows[i].user_query,
                  system_response |-> rows[i].system_response]]

\* ConversationManager.save_conversation: the row inserted when the commit
\* succeeds, nothing when the database fails (rollback).
save_conversation(db, committed, session_id, user_query, system_response) ==
    IF committed
    THEN Append(db, [session_id |-> session_id, user_query |-> user_query,
                     system_response |-> system_response])
    ELSE db

\* ------------------------------------------------------------ the nodes

\* The limit validate_input_node passes to get_conversation_history.
history_limit == 3

validate_input_node(s, fresh, db, dbOk) ==
    LET user_query == strip(s.user_query) IN
    IF user_query = <<>>
    THEN Merge(s, [error |-> "User query cannot be empty",
                   error_type |-> "validation"])
    ELSE LET original_query == user_query
             session_id == IF s.session_id = None THEN fresh ELSE s.session_id
             conversation_history ==
                 get_recent_conversations(db, dbOk, session_id, history_limit)
             sanitized_query == re_sub(user_query)
         IN  Merge(s, [user_query |-> sanitized_query,
                       original_query |-> original_query,
                       session_id |-> session_id,
                       conversation_history |-> conversation_history,
                       query_formatting_attempt |-> 0,
                       first_formatted_query |-> NoText,
                       execution_retry_count |-> 0])

\* max_attempts of generate_sql_node and should_retry_sql_generation.
max_attempts == 3

\* generate_sql_node that does not count an attempt whose call raised.
generate_sql_node_uncounted_raise(s, r) ==
    LET attempts == s.sql_generation_attempts IN
    IF attempts >= max_attempts
    THEN Merge(s, [error |-> "SQL generation failed after 3 attempts",
                   error_type |-> "generation",
                   sql_generation_error |-> s.sql_generation_error])
    ELSE IF r.kind = "raise"
    THEN Merge(s, [sql_generation_error |-> ExcText,
                   error |-> "SQL generation error: " \o ExcText,
                   error_type |-> "generation"])
    ELSE IF Truthy(r.value)
    THEN Merge(s, [generated_sql |-> r.value,
                   sql_generation_attempts |-> attempts + 1,
                   sql_generation_error |-> None,
                   error |-> None])
    ELSE Merge(s, [sql_generation_attempts |-> attempts + 1,
                   sql_generation_error |-> "Failed to generate SQL query",
                   error |-> "SQL generation returned None",
                   error_type |-> "generation"])

\* generate_sql_node; r is what the generation service does when called.
generate_sql_node(s, r) ==
    LET attempts == s.sql_generation_attempts IN
    IF attempts >= max_attempts
    THEN Merge(s, [error |-> "SQL generation failed after 3 attempts",
                   error_type |-> "generation",
                   sql_generation_error |-> s.sql_generation_error])
    ELSE IF r.kind = "raise"
    THEN Merge(s, [sql_generation_attempts |-> attempts + 1,
                   sql_generation_error |-> ExcText,
                   error |-> "SQL generation error: " \o ExcText,
                   error_type |-> "generation"])
    ELSE IF Truthy(r.value)
    THEN Merge(s, [generated_sql |-> r.value,
                   sql_generation_attempts |-> attempts + 1,
                   sql_generation_error |-> None,
                   error |-> None])
    ELSE Merge(s, [sql_generation_attempts |-> attempts + 1,
                   sql_generation_error |-> "Failed to generate SQL query",
                   error |-> "SQL generation returned None",
                   error_type |-> "generation"])

\* Whether generate_sql_node calls the generation service.
generate_sql_calls(s) == s.sql_generation_attempts < max_attempts

kw_DROP == <<"D","R","O","P">>
kw_DELETE == <<"D","E","L","E","T","E">>
kw_TRUNCATE == <<"T","R","U","N","C","A","T","E">>
kw_ALTER == <<"A","L","T","E","R">>
kw_CREATE == <<"C","R","E","A","T","E">>
kw_INSERT == <<"I","N","S","E","R","T">>
kw_UPDATE == <<"U","P","D","A","T","E">>
kw_SELECT == <<"S","E","L","E","C","T">>
kw_FROM == <<"F","R","O","M">>
kw_REPORTS_MASTER == <<"R","E","P","O","R","T","S","_","M","A","S","T","E","R">>

\* The blocklist with its last keyword forgotten.
dangerous_keywords_without_update ==
    <<kw_DROP, kw_DELETE, kw_TRUNCATE, kw_ALTER, kw_CREATE, kw_INSERT>>

dangerous_keywords ==
    <<kw_DROP, kw_DELETE, kw_TRUNCATE, kw_ALTER, kw_CREATE, kw_INSERT, kw_UPDATE>>

\* validate_sql_node raises (AttributeError: None has no strip) when
\* generated_sql is None: state.get finds the key, so its default is not used.
validate_sql_raises(s) == s.generated_sql = NoText

\* validate_sql_node, for a generated_sql that is a text.
validate_sql_node(s) ==
    LET sql_query == upper(strip(s.generated_sql))
        Invalid(msg) == Merge(s, [sql_valid |-> FALSE, error |-> msg,
                                  error_type |-> "validation"])
    IN  IF sql_query = <<>>
        THEN Invalid("No SQL query to validate")
        ELSE IF \E i \in DOMAIN dangerous_keywords :
                    contains(sql_query, dangerous_keywords[i])
        THEN Invalid("SQL query contains dangerous operation")
        ELSE IF ~startswith(sql_query, kw_SELECT)
        THEN Invalid("SQL query must start with SELECT")
        ELSE IF ~contains(sql_query, kw_FROM)
        THEN Invalid("SQL query must contain FROM clause")
        ELSE IF ~contains(sql_query, kw_REPORTS_MASTER)
        THEN Invalid("SQL query must reference reports_master table")
        ELSE Merge(s, [sql_valid |-> TRUE, error |-> None])

\* Whether execute_sql_node calls the execution service.
execute_sql_calls(s) == Truthy(s.generated_sql)

\* execute_sql_node with the empty-result check left out of the list branch.
execute_sql_node_list_unchecked(s, r) ==
    LET Zero(result) ==
            Merge(s, [query_result |-> result,
                      execution_success |-> FALSE,
                      execution_error |-> "Query returned 0 rows",
                      error |-> "No data returned from query",
                      error_type |-> "execution"])
        Success(result) ==
            Merge(s, [query_result |-> result,
                      execution_success |-> TRUE,
                      execution_error |-> None,
                      error |-> None])
    IN  IF r.kind = "raise"
        THEN Merge(s, [execution_success |-> FALSE,
                       execution_error |-> ExcText,
                       error |-> "SQL execution error: " \o ExcText,
                       error_type |-> "execution"])
        ELSE IF r.kind = "DataFrame"
        THEN IF r.rows = 0
             THEN Zero([kind |-> "list", rows |-> r.rows])
             ELSE Success([kind |-> "list", rows |-> r.rows])
        ELSE Success([kind |-> r.kind, rows |-> r.rows])

\* execute_sql_node with a failure that leaves error as it was.
execute_sql_node_failure_without_error(s, r) ==
    IF r.kind = "raise" \/ (r.kind \in {"DataFrame", "list"} /\ r.rows = 0)
    THEN Merge(s, [execution_success |-> FALSE,
                   execution_error |-> "Query returned 0 rows",
                   error_type |-> "execution"])
    ELSE Merge(s, [query_result |-> [kind |-> IF r.kind = "DataFrame"
                                              THEN "list" ELSE r.kind,
                                     rows |-> r.rows],
                   execution_success |-> TRUE,
                   execution_error |-> None,
                   error |-> None])

\* execute_sql_node; r is what the execution service does when called: a
\* DataFrame, a list or a dict returned, or an exception raised.
execute_sql_node(s, r) ==
    LET Zero(result) ==
            Merge(s, [query_result |-> result,
                      execution_success |-> FALSE,
                      execution_error |-> "Query returned 0 rows",
                      error |-> "No data returned from query",
                      error_type |-> "execution"])
        Success(result) ==
            Merge(s, [query_result |-> result,
                      execution_success |-> TRUE,
                      execution_error |-> None,
                      error |-> None])
    IN  IF ~Truthy(s.generated_sql)
        THEN Merge(s, [execution_success |-> FALSE,
                       execution_error |-> "No SQL query to execute",
                       error |-> "Missing SQL query",
                       error_type |-> "execution"])
        ELSE IF r.kind = "raise"
        THEN Merge(s, [execution_success |-> FALSE,
                       execution_error |-> ExcText,
                       error |-> "SQL execution error: " \o ExcText,
                       error_type |-> "execution"])
        ELSE IF r.kind = "DataFrame"
        THEN LET serializable_result == [kind |-> "list", rows |-> r.rows] IN
             IF serializable_result.rows = 0
             THEN Zero(serializable_result)
             ELSE Success(serializable_result)
        ELSE LET serializable_result == [kind |-> r.kind, rows |-> r.rows] IN
             IF serializable_result.kind = "list" /\ serializable_result.rows = 0
             THEN Zero(serializable_result)
             ELSE Success(serializable_result)

\* data_summary of format_answer_node: the preview of the result.
data_summary(query_result) ==
    IF query_result.kind = "list"
    THEN IF query_result.rows = 0
         THEN "No data found (empty result set)"
         ELSE "Results: " \o ToString(query_result.rows) \o " rows"
    ELSE "dict result"

\* format_answer_node without the fallback to the preview.
format_answer_node_no_fallback(s, r) ==
    IF r.kind = "raise"
    THEN Merge(s, [raw_data_summary |-> data_summary(s.query_result),
                   error |-> "Error formatting answer: " \o ExcText,
                   error_type |-> "formatting"])
    ELSE Merge(s, [formatted_answer |-> r.value,
                   raw_data_summary |-> data_summary(s.query_result),
                   error |-> None])

\* format_answer_node; r is what the answer-formatting service does.
format_answer_node(s, r) ==
    IF s.query_result = NoResult
    THEN Merge(s, [formatted_answer |-> "No results to format",
                   error |-> "Query result is None",
                   error_type |-> "formatting"])
    ELSE IF r.kind = "raise"
    THEN Merge(s, [formatted_answer |-> data_summary(s.query_result),
                   raw_data_summary |-> data_summary(s.query_result),
                   error |-> "Error formatting answer: " \o ExcText,
                   error_type |-> "formatting"])
    ELSE Merge(s, [formatted_answer |-> r.value,
                   raw_data_summary |-> data_summary(s.query_result),
                   error |-> None])

\* Whether format_answer_node calls the answer-formatting service.
format_answer_calls(s) == s.query_result # NoResult

\* successful_query that always takes the current user_query.
successful_query_always_current(s) == s.user_query

\* save_conversation_node: the query version it stores.
successful_query(s) ==
    LET formatting_attempt == s.query_formatting_attempt
        current_user_query == s.user_query
    IN  IF s.execution_success
        THEN IF formatting_attempt = 0 THEN s.original_query
             ELSE IF formatting_attempt = 1
             THEN IF Truthy(s.first_formatted_query)
                  THEN s.first_formatted_query
                  ELSE current_user_query
             ELSE current_user_query
        ELSE current_user_query

\* conversation_history[-5:]
LastFive(h) == SubSeq(h, IF Len(h) > 5 THEN Len(h) - 4 ELSE 1, Len(h))

\* save_conversation_node whose failure also takes the answer back.
save_conversation_node_failure_clears_answer(s, r) ==
    IF r = "True"
    THEN Merge(s, [conversation_history |->
                      LastFive(Append(s.conversation_history,
                                      [user_query |-> successful_query(s),
                                       system_response |-> s.formatted_answer]))])
    ELSE Merge(s, [formatted_answer |-> None,
                   error |-> "Failed to save conversation",
                   error_type |-> "save"])

\* save_conversation_node; r is what tools.save_conversation does: returns
\* True, returns False, or raises.
save_conversation_node(s, r) ==
    IF r = "True"
    THEN Merge(s, [conversation_history |->
                      LastFive(Append(s.conversation_history,
                                      [user_query |-> successful_query(s),
                                       system_response |-> s.formatted_answer]))])
    ELSE IF r = "False"
    THEN Merge(s, [error |-> "Failed to save conversation",
                   error_type |-> "save"])
    ELSE Merge(s, [error |-> "Error saving conversation: " \o ExcText,
                   error_type |-> "save"])

\* QueryFormatter.format_query: '' for a blank query, else the cleaned text.
format_query(query, cleaned) ==
    IF strip(query) = <<>> THEN <<>> ELSE cleaned

\* Whether format_and_retry_node calls the reformulation service.
format_and_retry_calls(s) == s.query_formatting_attempt = 0

\* format_and_retry_node that does not keep the formatted question.
format_and_retry_node_forgets_formatted(s, cleaned) ==
    LET result == format_query(s.original_query, cleaned)
        formatted_query == IF result = <<>> THEN s.original_query ELSE result
    IN  Merge(s, [user_query |-> re_sub(formatted_query),
                  query_formatting_attempt |-> 1,
                  generated_sql |-> NoText,
                  sql_generation_attempts |-> 0,
                  sql_generation_error |-> None,
                  execution_retry_count |-> s.execution_retry_count + 1])

\* format_and_retry_node that keeps the generated SQL of the failed round.
format_and_retry_node_keeps_sql(s, cleaned) ==
    LET result == format_query(s.original_query, cleaned)
        formatted_query == IF result = <<>> THEN s.original_query ELSE result
    IN  Merge(s, [user_query |-> re_sub(formatted_query),
                  query_formatting_attempt |-> 1,
                  first_formatted_query |-> re_sub(formatted_query),
                  sql_generation_attempts |-> 0,
                  sql_generation_error |-> None,
                  execution_retry_count |-> s.execution_retry_count + 1])

\* format_and_retry_node that does not count the escalation.
format_and_retry_node_uncounted(s, cleaned) ==
    LET result == format_query(s.original_query, cleaned)
        formatted_query == IF result = <<>> THEN s.original_query ELSE result
    IN  Merge(s, [user_query |-> re_sub(formatted_query),
                  query_formatting_attempt |-> 1,
                  first_formatted_query |-> re_sub(formatted_query),
                  generated_sql |-> NoText,
                  sql_generation_attempts |-> 0,
                  sql_generation_error |-> None])

\* format_and_retry_node; cleaned is the text the reformulation service makes.
format_and_retry_node(s, cleaned) ==
    LET original_query == s.original_query
        formatting_attempt == s.query_formatting_attempt
    IN  IF formatting_attempt = 0
        THEN LET result == format_query(original_query, cleaned)
                 formatted_query == IF result = <<>> THEN original_query ELSE result
                 sanitized_query == re_sub(formatted_query)
             IN  Merge(s, [user_query |-> sanitized_query,
                           query_formatting_attempt |-> 1,
                           first_formatted_query |-> sanitized_query,
                           generated_sql |-> NoText,
                           sql_generation_attempts |-> 0,
                           sql_generation_error |-> None,
                           execution_retry_count |-> s.execution_retry_count + 1])
        ELSE s

\* reformat_and_retry_node that starts the formatting attempts over.
reformat_and_retry_node_resets_attempt(s, result) ==
    Merge(s, [user_query |-> re_sub(IF result = <<>> THEN s.original_query ELSE result),
              query_formatting_attempt |-> 0,
              generated_sql |-> NoText,
              sql_generation_attempts |-> 0,
              sql_generation_error |-> None,
              execution_retry_count |-> s.execution_retry_count + 1])

\* reformat_and_retry_node that clears execution_retry_count with the rest.
reformat_and_retry_node_clears_count(s, result) ==
    Merge(s, [user_query |-> re_sub(IF result = <<>> THEN s.original_query ELSE result),
              query_formatting_attempt |-> 2,
              generated_sql |-> NoText,
              sql_generation_attempts |-> 0,
              sql_generation_error |-> None,
              execution_retry_count |-> 0])

\* reformat_and_retry_node that does not advance query_formatting_attempt.
reformat_and_retry_node_keeps_attempt(s, result) ==
    Merge(s, [user_query |-> re_sub(IF result = <<>> THEN s.original_query ELSE result),
              generated_sql |-> NoText,
              sql_generation_attempts |-> 0,
              sql_generation_error |-> None,
              execution_retry_count |-> s.execution_retry_count + 1])

\* reformat_and_retry_node; result is reformat_query's formatted_query.
reformat_and_retry_node(s, result) ==
    LET original_query == s.original_query
        reformatted_query == IF result = <<>> THEN original_query ELSE result
        sanitized_query == re_sub(reformatted_query)
    IN  Merge(s, [user_query |-> sanitized_query,
                  query_formatting_attempt |-> 2,
                  generated_sql |-> NoText,
                  sql_generation_attempts |-> 0,
                  sql_generation_error |-> None,
                  execution_retry_count |-> s.execution_retry_count + 1])

error_messages ==
    [validation |-> "I couldn't validate your query. Please try rephrasing your question.",
     generation |-> "I had trouble generating a SQL query. Please try a different question.",
     execution |-> "The query couldn't be executed. Please check your question and try again.",
     formatting |-> "I retrieved the data but had trouble formatting it. Here's the raw result.",
     save |-> "The query was successful, but I couldn't save it to history.",
     unknown |-> "An unexpected error occurred. Please try again."]

\* error_handler_node that hands back no error.
error_handler_node_drops_error(s) ==
    Merge(s, [formatted_answer |->
                  "Error: " \o error_messages["unknown"]
                      \o " Technical details: " \o s.error,
              error |-> None,
              error_type |-> s.error_type])

\* error_handler_node
error_handler_node(s) ==
    LET error == s.error
        error_type == s.error_type
        user_message == IF error_type \in DOMAIN error_messages
                        THEN error_messages[error_type]
                        ELSE error_messages["unknown"]
    IN  Merge(s, [formatted_answer |->
                      "Error: " \o user_message \o " Technical details: " \o error,
                  error |-> error,
                  error_type |-> error_type])

\* ----------------------------------------------------------- the routers

\* The router after validate_sql that ignores sql_valid.
should_continue_after_validation_always_execute(s) == "execute_sql"

should_continue_after_validation(s) ==
    IF s.sql_valid THEN "execute_sql" ELSE "error_handler"

\* The router after execute_sql without the second reformulation.
should_continue_after_execution_one_round(s) ==
    IF s.execution_success THEN "format_answer"
    ELSE IF s.query_formatting_attempt = 0 /\ s.execution_retry_count < 2
    THEN "format_and_retry"
    ELSE "error_handler"

\* The router after execute_sql with the second bound off by one.
should_continue_after_execution_loose_bound(s) ==
    IF s.execution_success THEN "format_answer"
    ELSE IF s.query_formatting_attempt = 0 /\ s.execution_retry_count < 2
    THEN "format_and_retry"
    ELSE IF s.query_formatting_attempt = 1 /\ s.execution_retry_count <= 3
    THEN "reformat_and_retry"
    ELSE "error_handler"

\* The router after execute_sql whose second retry does not look at
\* query_formatting_attempt.
should_continue_after_execution_count_only(s) ==
    IF s.execution_success THEN "format_answer"
    ELSE IF s.query_formatting_attempt = 0 /\ s.execution_retry_count < 2
    THEN "format_and_retry"
    ELSE IF s.execution_retry_count < 3
    THEN "reformat_and_retry"
    ELSE "error_handler"

\* The router after execute_sql that answers from a failed last round.
should_continue_after_execution_answers_failure(s) ==
    IF s.execution_success THEN "format_answer"
    ELSE IF s.query_formatting_attempt = 0 /\ s.execution_retry_count < 2
    THEN "format_and_retry"
    ELSE IF s.query_formatting_attempt = 1 /\ s.execution_retry_count < 3
    THEN "reformat_and_retry"
    ELSE "format_answer"

should_continue_after_execution(s) ==
    IF s.execution_success THEN "format_answer"
    ELSE LET formatting_attempt == s.query_formatting_attempt
             execution_retry_count == s.execution_retry_count
         IN  IF formatting_attempt = 0 /\ execution_retry_count < 2
             THEN "format_and_retry"
             ELSE IF formatting_attempt = 1 /\ execution_retry_count < 3
             THEN "reformat_and_retry"
             ELSE "error_handler"

\* The router after error_handler that gives up one attempt early.
should_retry_sql_generation_two_attempts(s) ==
    IF s.sql_generation_attempts < max_attempts - 1 THEN "generate_sql" ELSE "END"

\* The router after error_handler with the bound off by one.
should_retry_sql_generation_off_by_one(s) ==
    IF s.sql_generation_attempts <= max_attempts THEN "generate_sql" ELSE "END"

should_retry_sql_generation(s) ==
    IF s.sql_generation_attempts < max_attempts THEN "generate_sql" ELSE "END"

\* ------------------------------------------------- what the services do

\* The generation service: a text or None returned, or an exception.
GenOutcomes ==
    {[kind |-> "return", value |-> t] : t \in SqlTexts \cup {NoText}}
        \cup {[kind |-> "raise", value |-> NoText]}

\* The execution service: a DataFrame, a list or a dict returned, or an exception.
ExecOutcomes ==
    {[kind |-> k, rows |-> n] : k \in {"DataFrame", "list"}, n \in 0..MaxRows}
        \cup {[kind |-> "dict", rows |-> 0], [kind |-> "raise", rows |-> 0]}

\* The answer-formatting service: the answer text, or an exception.
AnswerOutcomes ==
    {[kind |-> "return", value |-> "answer"], [kind |-> "raise", value |-> None]}

\* tools.save_conversation: True, False, or an exception.
SaveOutcomes == {"True", "False", "raise"}

\* The cleaned text format_query makes of a question.
CleanedTexts == Reformulations

\* The formatted_query reformat_query returns.
ReformatResults == Reformulations

\* The kind of an outcome of the generation service: no SQL ("failed"), a text
\* with a blocklisted keyword ("blocked"), a text validate_sql_node accepts
\* ("valid"), or another text ("rejected").
GenKind(r) ==
    IF r.kind = "raise" \/ ~Truthy(r.value) THEN "failed"
    ELSE LET sql_query == upper(strip(r.value)) IN
         IF \E i \in DOMAIN dangerous_keywords :
                contains(sql_query, dangerous_keywords[i])
         THEN "blocked"
         ELSE IF startswith(sql_query, kw_SELECT)
                 /\ contains(sql_query, kw_FROM)
                 /\ contains(sql_query, kw_REPORTS_MASTER)
         THEN "valid"
         ELSE "rejected"

\* The kind of an outcome of the execution service: an exception ("raise"),
\* an empty table or list ("zero"), a table or list with rows ("rows"), or an
\* affected-rows dict ("dict").
ExecKind(r) ==
    IF r.kind = "raise" THEN "raise"
    ELSE IF r.kind = "dict" THEN "dict"
    ELSE IF r.rows = 0 THEN "zero" ELSE "rows"

\* lastExec when the step just taken made no execution call.
NoExec == [kind |-> "none", rows |-> 0]

\* How the invocation before the first one ended: there was none.
NoEarlier ==
    [session_id |-> None, ended |-> "START", query_formatting_attempt |-> 0,
     sql_generation_attempts |-> 0, execution_retry_count |-> 0]

\* How the invocation that just stopped ended: its session, its last node
\* and the counters of its final state.
Ended ==
    [session_id |-> state.session_id, ended |-> prev,
     query_formatting_attempt |-> state.query_formatting_attempt,
     sql_generation_attempts |-> state.sql_generation_attempts,
     execution_retry_count |-> state.execution_retry_count]

\* The driver run that takes the steps, as one record.
Run ==
    [pc |-> pc, prev |-> prev, state |-> state, turn |-> turn,
     visits |-> visits, calls |-> calls, roundGen |-> roundGen,
     execArg |-> execArg, lastExec |-> lastExec, saveArg |-> saveArg,
     genSeen |-> genSeen, execSeen |-> execSeen, histRead |-> histRead,
     sqlFresh |-> sqlFresh, earlier |-> earlier]

\* No second driver run.
NoRun == [pc |-> "idle"]

\* -------------------------------------------------------------- actions

Init ==
    /\ pc = "idle"
    /\ prev = "START"
    /\ state = initial_state(<<>>, None, FreshId(0))
    /\ store = <<>>
    /\ turn = 0
    /\ visits = 0
    /\ calls = NoCalls
    /\ roundGen = 0
    /\ execArg = NoText
    /\ lastExec = NoExec
    /\ saveArg = NoText
    /\ genSeen = {}
    /\ execSeen = {}
    /\ histRead = "none"
    /\ sqlFresh = FALSE
    /\ earlier = NoEarlier
    /\ parked = NoRun

\* AgentGraph.invoke that resumes the generation fields of the session's
\* last checkpoint instead of overwriting them.
Start_keeps_checkpoint(user_query, session_id) ==
    /\ state' = [initial_state(user_query, session_id, FreshId(turn + 1))
                    EXCEPT !.generated_sql = state.generated_sql,
                           !.sql_generation_attempts = state.sql_generation_attempts]
    /\ pc' = "validate_input"
    /\ prev' = "START"
    /\ turn' = turn + 1
    /\ visits' = 0
    /\ calls' = NoCalls
    /\ roundGen' = 0
    /\ execArg' = NoText
    /\ lastExec' = NoExec
    /\ saveArg' = NoText
    /\ genSeen' = {}
    /\ execSeen' = {}
    /\ histRead' = "none"
    /\ sqlFresh' = FALSE
    /\ earlier' = Ended
    /\ UNCHANGED <<store, parked>>

\* AgentGraph.invoke: a new invocation starts at the entry point.
Start(user_query, session_id) ==
    /\ state' = initial_state(user_query, session_id, FreshId(turn + 1))
    /\ pc' = "validate_input"
    /\ prev' = "START"
    /\ turn' = turn + 1
    /\ visits' = 0
    /\ calls' = NoCalls
    /\ roundGen' = 0
    /\ execArg' = NoText
    /\ lastExec' = NoExec
    /\ saveArg' = NoText
    /\ genSeen' = {}
    /\ execSeen' = {}
    /\ histRead' = "none"
    /\ sqlFresh' = FALSE
    /\ earlier' = Ended
    /\ UNCHANGED <<store, parked>>

Invoke ==
    /\ pc = "idle"
    /\ \E user_query \in Questions, session_id \in SessionIds \cup {None} :
           Start(user_query, session_id)

ValidateInput ==
    /\ pc = "validate_input"
    /\ \E dbOk \in BOOLEAN :
           /\ state' = validate_input_node(state, FreshId(turn), store, dbOk)
           /\ histRead' = IF strip(state.user_query) = <<>> THEN "none"
                           ELSE IF dbOk THEN "ok" ELSE "failed"
    /\ calls' = IF strip(state.user_query) # <<>>
                THEN [calls EXCEPT !.history = @ + 1] ELSE calls
    /\ pc' = "generate_sql"
    /\ prev' = "validate_input"
    /\ visits' = visits + 1
    /\ lastExec' = NoExec
    /\ UNCHANGED <<store, turn, roundGen, execArg, saveArg, genSeen, execSeen,
                   sqlFresh, earlier, parked>>

GenerateSql ==
    /\ pc = "generate_sql"
    /\ \E r \in GenOutcomes :
           /\ state' = generate_sql_node(state, r)
           /\ genSeen' = IF generate_sql_calls(state)
                          THEN genSeen \cup {GenKind(r)} ELSE genSeen
           /\ sqlFresh' = IF generate_sql_calls(state) /\ GenKind(r) # "failed"
                           THEN TRUE ELSE sqlFresh
    /\ calls' = IF generate_sql_calls(state)
                THEN [calls EXCEPT !.gen = @ + 1] ELSE calls
    /\ roundGen' = IF generate_sql_calls(state) THEN roundGen + 1 ELSE roundGen
    /\ pc' = "validate_sql"
    /\ prev' = "generate_sql"
    /\ visits' = visits + 1
    /\ lastExec' = NoExec
    /\ histRead' = "none"
    /\ UNCHANGED <<store, turn, execArg, saveArg, execSeen, earlier, parked>>

ValidateSql ==
    /\ pc = "validate_sql"
    /\ IF validate_sql_raises(state)
       THEN /\ pc' = "raised"
            /\ UNCHANGED state
       ELSE /\ state' = validate_sql_node(state)
            /\ pc' = should_continue_after_validation(state')
    /\ prev' = "validate_sql"
    /\ visits' = visits + 1
    /\ lastExec' = NoExec
    /\ histRead' = "none"
    /\ UNCHANGED <<store, turn, calls, roundGen, execArg, saveArg, genSeen, execSeen,
                   sqlFresh, earlier, parked>>

ExecuteSql ==
    /\ pc = "execute_sql"
    /\ \E r \in ExecOutcomes :
           /\ state' = execute_sql_node(state, r)
           /\ lastExec' = IF execute_sql_calls(state) THEN r ELSE NoExec
           /\ execSeen' = IF execute_sql_calls(state)
                           THEN execSeen \cup {ExecKind(r)} ELSE execSeen
    /\ calls' = IF execute_sql_calls(state)
                THEN [calls EXCEPT !.exec = @ + 1] ELSE calls
    /\ execArg' = IF execute_sql_calls(state) THEN state.generated_sql ELSE execArg
    /\ sqlFresh' = IF execute_sql_calls(state) THEN FALSE ELSE sqlFresh
    /\ pc' = should_continue_after_execution(state')
    /\ prev' = "execute_sql"
    /\ visits' = visits + 1
    /\ histRead' = "none"
    /\ UNCHANGED <<store, turn, roundGen, saveArg, genSeen, earlier, parked>>

FormatAnswer ==
    /\ pc = "format_answer"
    /\ \E r \in AnswerOutcomes : state' = format_answer_node(state, r)
    /\ calls' = IF format_answer_calls(state)
                THEN [calls EXCEPT !.answer = @ + 1] ELSE calls
    /\ pc' = "save_conversation"
    /\ prev' = "format_answer"
    /\ visits' = visits + 1
    /\ lastExec' = NoExec
    /\ histRead' = "none"
    /\ UNCHANGED <<store, turn, roundGen, execArg, saveArg, genSeen, execSeen,
                   sqlFresh, earlier, parked>>

SaveConversation ==
    /\ pc = "save_conversation"
    /\ \E r \in SaveOutcomes :
           /\ state' = save_conversation_node(state, r)
           /\ store' = save_conversation(store, r = "True", state.session_id,
                                         successful_query(state),
                                         state.formatted_answer)
    /\ calls' = [calls EXCEPT !.save = @ + 1]
    /\ saveArg' = successful_query(state)
    /\ pc' = "END"
    /\ prev' = "save_conversation"
    /\ visits' = visits + 1
    /\ lastExec' = NoExec
    /\ histRead' = "none"
    /\ UNCHANGED <<turn, roundGen, execArg, genSeen, execSeen, sqlFresh, earlier,
                   parked>>

FormatAndRetry ==
    /\ pc = "format_and_retry"
    /\ \E cleaned \in CleanedTexts :
           state' = format_and_retry_node(state, cleaned)
    /\ calls' = IF format_and_retry_calls(state)
                THEN [calls EXCEPT !.format_query = @ + 1] ELSE calls
    /\ roundGen' = IF format_and_retry_calls(state) THEN 0 ELSE roundGen
    /\ pc' = "generate_sql"
    /\ prev' = "format_and_retry"
    /\ visits' = visits + 1
    /\ lastExec' = NoExec
    /\ histRead' = "none"
    /\ UNCHANGED <<store, turn, execArg, saveArg, genSeen, execSeen, sqlFresh,
                   earlier, parked>>

ReformatAndRetry ==
    /\ pc = "reformat_and_retry"
    /\ \E result \in ReformatResults :
           state' = reformat_and_retry_node(state, result)
    /\ calls' = [calls EXCEPT !.reformat_query = @ + 1]
    /\ roundGen' = 0
    /\ pc' = "generate_sql"
    /\ prev' = "reformat_and_retry"
    /\ visits' = visits + 1
    /\ lastExec' = NoExec
    /\ histRead' = "none"
    /\ UNCHANGED <<store, turn, execArg, saveArg, genSeen, execSeen, sqlFresh,
                   earlier, parked>>

ErrorHandler ==
    /\ pc = "error_handler"
    /\ state' = error_handler_node(state)
    /\ pc' = should_retry_sql_generation(state')
    /\ prev' = "error_handler"
    /\ visits' = visits + 1
    /\ lastExec' = NoExec
    /\ histRead' = "none"
    /\ UNCHANGED <<store, turn, calls, roundGen, execArg, saveArg, genSeen, execSeen,
                   sqlFresh, earlier, parked>>

Next ==
    \/ Invoke
    \/ ValidateInput
    \/ GenerateSql
    \/ ValidateSql
    \/ ExecuteSql
    \/ FormatAnswer
    \/ SaveConversation
    \/ FormatAndRetry
    \/ ReformatAndRetry
    \/ ErrorHandler

Spec == Init /\ [][Next]_vars

\* -------------------------------------- validate_sql on a family of texts

\* The texts validate_sql_node is applied to: every combination of a prefix,
\* a first word, a column, a FROM part, a table and a suffix, and the blank text.
ValidatorTexts ==
    {prefix \o verb \o sp \o col \o sp \o frm \o tab \o suffix :
        prefix \in {<<>>, sp, w_with \o sp},
        verb \in {w_select, w_Select, w_drop},
        col \in {w_col, w_updated_at},
        frm \in {w_from \o sp, w_From \o sp, <<>>},
        tab \in {w_table, w_Table, w_other},
        suffix \in {<<>>, sp, w_semi \o w_drop \o sp \o w_table}}
        \cup {sp \o sp}

\* The state generate_sql_node leaves when the generation service returned t.
InitValidate ==
    /\ pc = "validate_sql"
    /\ prev = "generate_sql"
    /\ \E t \in ValidatorTexts :
           /\ state = generate_sql_node(
                          validate_input_node(initial_state(<<"a">>, "s1", FreshId(1)),
                                              FreshId(1), <<>>, TRUE),
                          [kind |-> "return", value |-> t])
           /\ genSeen = {GenKind([kind |-> "return", value |-> t])}
    /\ store = <<>>
    /\ turn = 1
    /\ visits = 2
    /\ calls = [NoCalls EXCEPT !.history = 1, !.gen = 1]
    /\ roundGen = 1
    /\ execArg = NoText
    /\ lastExec = NoExec
    /\ saveArg = NoText
    /\ execSeen = {}
    /\ histRead = "none"
    /\ sqlFresh = TRUE
    /\ earlier = NoEarlier
    /\ parked = NoRun

NextValidate == ValidateSql

SpecValidate == InitValidate /\ [][NextValidate]_vars

\* ------------------------------------------- several turns on one store

\* The questions of the turns: a blank one and a plain one.
SessionQuestions == {<<" ">>, <<"a">>}

\* A caller invokes the agent, for the first time or after an invocation
\* that reached END, with a known session id or none.
SessionInvoke ==
    /\ pc \in {"idle", "END"}
    /\ turn < MaxTurns
    /\ \E user_query \in SessionQuestions, session_id \in SessionIds \cup {None} :
           Start(user_query, session_id)

\* The turns in which every service but the store does its work: valid SQL,
\* a result with a row, an answer.
SessionGenerateSql == GenerateSql /\ genSeen' = {"valid"}

SessionExecuteSql == ExecuteSql /\ lastExec' = [kind |-> "list", rows |-> 1]

SessionFormatAnswer == FormatAnswer /\ state'.error = None

\* The store commits or fails.
SessionSaveConversation ==
    SaveConversation /\ state'.error # "Error saving conversation: " \o ExcText

NextSession ==
    \/ SessionInvoke
    \/ ValidateInput
    \/ SessionGenerateSql
    \/ ValidateSql
    \/ SessionExecuteSql
    \/ SessionFormatAnswer
    \/ SessionSaveConversation

SpecSession == Init /\ [][NextSession]_vars

\* ------------------------------- turns that fail and turns that succeed

\* A caller invokes the agent again after an invocation that reached END,
\* whether it succeeded or failed, with a known session id or none.
TurnsInvoke ==
    /\ pc \in {"idle", "END"}
    /\ turn < MaxRetryTurns
    /\ \E user_query \in SessionQuestions, session_id \in SessionIds \cup {None} :
           Start(user_query, session_id)

\* The generation service returns SQL, valid or with a blocklisted keyword.
TurnsGenerateSql == GenerateSql /\ genSeen' \subseteq {"valid", "blocked"}

\* The execution service returns a list, empty or of one row.
TurnsExecuteSql ==
    ExecuteSql /\ lastExec' \in {[kind |-> "list", rows |-> n] : n \in 0..1}

\* The reformulation service returns the first of its texts.
TurnsFormatAndRetry == FormatAndRetry /\ state'.user_query = <<"b">>

TurnsReformatAndRetry == ReformatAndRetry /\ state'.user_query = <<"b">>

\* The store's read succeeds.
TurnsValidateInput == ValidateInput /\ histRead' # "failed"

\* The store commits.
TurnsSaveConversation == SaveConversation /\ state'.error_type # "save"

NextTurns ==
    \/ TurnsInvoke
    \/ TurnsValidateInput
    \/ TurnsGenerateSql
    \/ ValidateSql
    \/ TurnsExecuteSql
    \/ SessionFormatAnswer
    \/ TurnsSaveConversation
    \/ TurnsFormatAndRetry
    \/ TurnsReformatAndRetry
    \/ ErrorHandler

SpecTurns == Init /\ [][NextTurns]_vars

\* ------------------------------------ two driver runs on the same store

\* The questions of the two runs: one answered at once, one answered after
\* the first reformulation, one never answered.
ConcurrentQuestions == {<<"a">>, <<"a", "?">>, <<"a", "!">>}

\* The formatting round from which the execution service finds rows for SQL
\* generated for the question.
RoundWithRows(question) ==
    IF question = <<"a">> THEN 0
    ELSE IF question = <<"a", "?">> THEN 1
    ELSE 3

\* The execution service, as a function of the run it is called in.
ExecForRun(s) ==
    [kind |-> "list",
     rows |-> IF s.query_formatting_attempt >= RoundWithRows(s.original_query)
              THEN 1 ELSE 0]

\* A row of the conversation_history table.
StoreRow(session_id, user_query) ==
    [session_id |-> session_id, user_query |-> user_query,
     system_response |-> "answer"]

\* The table before the two runs: empty, or holding turns of both sessions.
ConcurrentStores ==
    {<<>>,
     <<StoreRow("s1", <<"x">>), StoreRow("s2", <<"y">>)>>,
     <<StoreRow("s2", <<"y">>), StoreRow("s1", <<"x">>),
       StoreRow("s2", <<"z">>), StoreRow("s1", <<"w">>)>>}

\* A driver run that AgentGraph.invoke has just started.
StartedRun(user_query, session_id, n) ==
    [pc |-> "validate_input", prev |-> "START",
     state |-> initial_state(user_query, session_id, FreshId(n)),
     turn |-> n, visits |-> 0, calls |-> NoCalls, roundGen |-> 0,
     execArg |-> NoText, lastExec |-> NoExec, saveArg |-> NoText,
     genSeen |-> {}, execSeen |-> {}, histRead |-> "none",
     sqlFresh |-> FALSE, earlier |-> NoEarlier]

\* Two callers have invoked the agent, for session s1 and for another session.
InitConcurrent ==
    /\ \E user_query \in ConcurrentQuestions :
           state = initial_state(user_query, "s1", FreshId(1))
    /\ pc = "validate_input"
    /\ prev = "START"
    /\ turn = 1
    /\ visits = 0
    /\ calls = NoCalls
    /\ roundGen = 0
    /\ execArg = NoText
    /\ lastExec = NoExec
    /\ saveArg = NoText
    /\ genSeen = {}
    /\ execSeen = {}
    /\ histRead = "none"
    /\ sqlFresh = FALSE
    /\ earlier = NoEarlier
    /\ \E user_query \in ConcurrentQuestions, session_id \in {"s2", None} :
           parked = StartedRun(user_query, session_id, 2)
    /\ store \in ConcurrentStores

\* The other driver run takes the next steps.
Switch ==
    /\ parked.pc # "idle"
    /\ pc' = parked.pc
    /\ prev' = parked.prev
    /\ state' = parked.state
    /\ turn' = parked.turn
    /\ visits' = parked.visits
    /\ calls' = parked.calls
    /\ roundGen' = parked.roundGen
    /\ execArg' = parked.execArg
    /\ lastExec' = parked.lastExec
    /\ saveArg' = parked.saveArg
    /\ genSeen' = parked.genSeen
    /\ execSeen' = parked.execSeen
    /\ histRead' = parked.histRead
    /\ sqlFresh' = parked.sqlFresh
    /\ earlier' = parked.earlier
    /\ parked' = Run
    /\ UNCHANGED store

\* The store's read succeeds.
ConcurrentValidateInput == ValidateInput /\ histRead' = "ok"

ConcurrentExecuteSql == ExecuteSql /\ lastExec' = ExecForRun(state)

NextConcurrent ==
    \/ Switch
    \/ ConcurrentValidateInput
    \/ SessionGenerateSql
    \/ ValidateSql
    \/ ConcurrentExecuteSql
    \/ SessionFormatAnswer
    \/ TurnsSaveConversation
    \/ TurnsFormatAndRetry
    \/ TurnsReformatAndRetry
    \/ ErrorHandler

SpecConcurrent == InitConcurrent /\ [][NextConcurrent]_vars

\* graph.invoke of one driver run alone on a store: the node and the state
\* it has reached after n node visits, and the store it has made.
RECURSIVE Drive(_, _, _, _)
Drive(node, s, db, n) ==
    IF n = 0 \/ node = "END"
    THEN [pc |-> node, state |-> s, store |-> db]
    ELSE IF node = "validate_input"
    THEN Drive("generate_sql",
               validate_input_node(s, s.session_id, db, TRUE), db, n - 1)
    ELSE IF node = "generate_sql"
    THEN Drive("validate_sql",
               generate_sql_node(s, [kind |-> "return", value |-> SqlGoodMixed]),
               db, n - 1)
    ELSE IF node = "validate_sql"
    THEN LET t == validate_sql_node(s) IN
         Drive(should_continue_after_validation(t), t, db, n - 1)
    ELSE IF node = "execute_sql"
    THEN LET t == execute_sql_node(s, ExecForRun(s)) IN
         Drive(should_continue_after_execution(t), t, db, n - 1)
    ELSE IF node = "format_answer"
    THEN Drive("save_conversation",
               format_answer_node(s, [kind |-> "return", value |-> "answer"]),
               db, n - 1)
    ELSE IF node = "save_conversation"
    THEN Drive("END", save_conversation_node(s, "True"),
               save_conversation(db, TRUE, s.session_id, successful_query(s),
                                 s.formatted_answer), n - 1)
    ELSE IF node = "format_and_retry"
    THEN Drive("generate_sql", format_and_retry_node(s, <<"b">>), db, n - 1)
    ELSE IF node = "reformat_and_retry"
    THEN Drive("generate_sql", reformat_and_retry_node(s, <<"b">>), db, n - 1)
    ELSE LET t == error_handler_node(s) IN
         Drive(should_retry_sql_generation(t), t, db, n - 1)

\* ---------------------------------- validate_input on a family of questions

\* The characters of the questions: a blank, a letter, a character the
\* sanitizer removes and one it keeps.
QuestionChars == {" ", "a", "!", "?"}

\* Every question of at most MaxQuestionLen characters.
InputTexts == UNION {[1..n -> QuestionChars] : n \in 0..MaxQuestionLen}

\* The state AgentGraph.invoke hands to validate_input.
InitInput ==
    /\ pc = "validate_input"
    /\ prev = "START"
    /\ \E user_query \in InputTexts, session_id \in SessionIds \cup {None} :
           state = initial_state(user_query, session_id, FreshId(1))
    /\ store = <<>>
    /\ turn = 1
    /\ visits = 0
    /\ calls = NoCalls
    /\ roundGen = 0
    /\ execArg = NoText
    /\ lastExec = NoExec
    /\ saveArg = NoText
    /\ genSeen = {}
    /\ execSeen = {}
    /\ histRead = "none"
    /\ sqlFresh = FALSE
    /\ earlier = NoEarlier
    /\ parked = NoRun

NextInput == ValidateInput

SpecInput == InitInput /\ [][NextInput]_vars

\* ------------------------------- error_handler on every kind of error_type

\* The values of error_type: None, the five the nodes set, the key "unknown"
\* and a value no node sets.
ErrorTypes ==
    {None, "validation", "generation", "execution", "formatting", "save",
     "unknown", "other"}

\* The values of error: None or a message.
ErrorTexts == {None, "boom"}

\* A state in which the driver enters error_handler.
InitHandler ==
    /\ pc = "error_handler"
    /\ prev = "validate_sql"
    /\ \E error_type \in ErrorTypes, error \in ErrorTexts,
          attempts \in 0..max_attempts :
           state = Merge(validate_sql_node(
                             generate_sql_node(
                                 validate_input_node(
                                     initial_state(<<"a">>, "s1", FreshId(1)),
                                     FreshId(1), <<>>, TRUE),
                                 [kind |-> "return", value |-> SqlUpdatedAt])),
                         [error |-> error, error_type |-> error_type,
                          sql_generation_attempts |-> attempts])
    /\ store = <<>>
    /\ turn = 1
    /\ visits = 3
    /\ calls = [NoCalls EXCEPT !.history = 1, !.gen = 1]
    /\ roundGen = 1
    /\ execArg = NoText
    /\ lastExec = NoExec
    /\ saveArg = NoText
    /\ genSeen = {"blocked"}
    /\ execSeen = {}
    /\ histRead = "none"
    /\ sqlFresh = TRUE
    /\ earlier = NoEarlier
    /\ parked = NoRun

NextHandler == ErrorHandler

SpecHandler == InitHandler /\ [][NextHandler]_vars

\* ------------------- the router after execute_sql on every pair of counters

\* Values of query_formatting_attempt and of execution_retry_count, on both
\* sides of the router's tests.
RouterAttempts == 0..3
RouterRetries == 0..4

\* A state in which the driver enters execute_sql with validated SQL.
InitRouter ==
    /\ pc = "execute_sql"
    /\ prev = "validate_sql"
    /\ \E formatting_attempt \in RouterAttempts,
          execution_retry_count \in RouterRetries :
           state = Merge(validate_sql_node(
                             generate_sql_node(
                                 validate_input_node(
                                     initial_state(<<"a">>, "s1", FreshId(1)),
                                     FreshId(1), <<>>, TRUE),
                                 [kind |-> "return", value |-> SqlGood])),
                         [query_formatting_attempt |-> formatting_attempt,
                          execution_retry_count |-> execution_retry_count])
    /\ store = <<>>
    /\ turn = 1
    /\ visits = 3
    /\ calls = [NoCalls EXCEPT !.history = 1, !.gen = 1]
    /\ roundGen = 1
    /\ execArg = NoText
    /\ lastExec = NoExec
    /\ saveArg = NoText
    /\ genSeen = {"valid"}
    /\ execSeen = {}
    /\ histRead = "none"
    /\ sqlFresh = TRUE
    /\ earlier = NoEarlier
    /\ parked = NoRun

NextRouter == ExecuteSql

SpecRouter == InitRouter /\ [][NextRouter]_vars

\* ------------------------------------------------------------ the claims

qfa == state.query_formatting_attempt

\* The most node visits one invocation can make: validate_input, two
\* formatting rounds that end in a reformulation, and a last round whose
\* every generated SQL is executed.
VisitBound == 1 + 2 * (3 * max_attempts + 1) + (4 * max_attempts + 1)

\* C1: every invocation stops after a bounded number of node visits, and the
\* generation service is called at most 9 times in it, at most 3 times in
\* each of at most 3 formatting rounds.
C1_BoundedRun ==
    /\ visits <= VisitBound
    /\ calls.gen <= 3 * max_attempts
    /\ roundGen <= max_attempts
    /\ qfa \in 0..2

C1_Witness == pc = "END" /\ calls.gen = 9 /\ visits = VisitBound

\* C2: no node raises past the driver, and every invocation that reaches END
\* has a non-null formatted_answer.
C2_NoRaise ==
    /\ pc # "raised"
    /\ pc = "END" => state.formatted_answer # None

\* C3: execute_sql is only entered right after a validate_sql step that set
\* sql_valid=true, the execution service only gets SQL the validator accepts,
\* and after sql_valid=false the next node is error_handler.
C3_ExecuteOnlyValidated ==
    /\ pc = "execute_sql" => prev = "validate_sql" /\ state.sql_valid
    /\ (prev = "validate_sql" /\ pc # "raised" /\ ~state.sql_valid)
           => pc = "error_handler"
    /\ calls.exec > 0 =>
           /\ Truthy(execArg)
           /\ validate_sql_node([state EXCEPT !.generated_sql = execArg]).sql_valid

C3_Witness ==
    /\ prev = "execute_sql"
    /\ calls.exec = 1
    /\ execArg = SqlGoodMixed

\* The text without the whitespace at its two ends, by positions.
ClaimTrim(t) ==
    LET inked == {i \in 1..Len(t) : t[i] \notin Whitespace} IN
    IF inked = {} THEN <<>>
    ELSE SubSeq(t, CHOOSE i \in inked : \A j \in inked : i <= j,
                   CHOOSE i \in inked : \A j \in inked : i >= j)

\* Word w (in capitals) stands in text t at position i, whatever the case.
ClaimOccursAt(t, w, i) ==
    /\ i + Len(w) - 1 <= Len(t)
    /\ \A j \in 1..Len(w) : UpperOf(t[i + j - 1]) = w[j]

ClaimOccurs(t, w) == \E i \in 1..Len(t) : ClaimOccursAt(t, w, i)

\* The texts C4 says validate_sql accepts.
ClaimValid(text) ==
    LET t == ClaimTrim(text) IN
    /\ ClaimOccursAt(t, kw_SELECT, 1)
    /\ ClaimOccurs(t, kw_FROM)
    /\ ClaimOccurs(t, kw_REPORTS_MASTER)
    /\ \A w \in {kw_DROP, kw_DELETE, kw_TRUNCATE, kw_ALTER, kw_CREATE,
                 kw_INSERT, kw_UPDATE} : ~ClaimOccurs(t, w)

\* C4: validate_sql sets sql_valid=true exactly for the texts that, trimmed
\* and whatever their case, start with SELECT, contain FROM and reports_master
\* and contain no blocklisted keyword anywhere; for every other text it sets
\* sql_valid=false and error_type=validation.
C4_ValidateSqlExact ==
    prev = "validate_sql" =>
        /\ state.sql_valid <=> ClaimValid(state.generated_sql)
        /\ ~state.sql_valid => state.error_type = "validation"
        /\ pc = IF ClaimValid(state.generated_sql)
                THEN "execute_sql" ELSE "error_handler"

C4_Witness ==
    /\ prev = "validate_sql"
    /\ state.sql_valid
    /\ state.generated_sql # strip(state.generated_sql)
    /\ state.generated_sql # upper(state.generated_sql)

\* C5: when the execution service returns zero rows (an empty table or an
\* empty list), execute_sql sets execution_success=false, a non-null
\* execution_error and error_type=execution, and the run does not go on to
\* format_answer.
C5_ZeroRowsFail ==
    (lastExec.kind \in {"DataFrame", "list"} /\ lastExec.rows = 0) =>
        /\ ~state.execution_success
        /\ state.execution_error # None
        /\ state.error_type = "execution"
        /\ pc # "format_answer"

C5_Witness ==
    /\ lastExec = [kind |-> "list", rows |-> 0]
    /\ pc = "format_and_retry"

\* C6: a run that ends through save_conversation called the store's append
\* exactly once, with original_query when query_formatting_attempt=0,
\* first_formatted_query when it is 1 and the current user_query when it is 2.
C6_SavedQuery ==
    (pc = "END" /\ prev = "save_conversation") =>
        /\ calls.save = 1
        /\ qfa = 0 => saveArg = state.original_query
        /\ qfa = 1 => saveArg = state.first_formatted_query
        /\ qfa = 2 => saveArg = state.user_query

C6_Witness ==
    /\ pc = "END"
    /\ prev = "save_conversation"
    /\ qfa = 1
    /\ saveArg = <<"b">>
    /\ state.original_query = <<"a", "!">>

\* C7: within an invocation query_formatting_attempt never decreases: it goes
\* through 0, 1, 2 in that order, one step at a time.
C7_FormattingAttemptMonotone ==
    [][pc # "idle" =>
          /\ state'.query_formatting_attempt \in 0..2
          /\ state'.query_formatting_attempt
                 \in {qfa, qfa + 1}]_vars

C7_Witness == qfa = 2 /\ pc = "END"

\* C8: execution_retry_count is between 0 and 3 in every reachable state, and
\* no step after validate_input decreases it.
C8_RetryCountBounded ==
    /\ [](state.execution_retry_count \in 0..3)
    /\ [][pc \notin {"idle", "validate_input"} =>
             state'.execution_retry_count >= state.execution_retry_count]_vars

C8_Witness == state.execution_retry_count = 2 /\ pc = "END"

\* C9: the reformulation service is called at most twice in an invocation,
\* at most once by format_and_retry (only at query_formatting_attempt=0) and
\* at most once by reformat_and_retry (only at 1, and after the first); at
\* query_formatting_attempt=2 a failed execution goes to error_handler.
C9_TwoReformulations ==
    /\ calls.format_query <= 1
    /\ calls.reformat_query <= 1
    /\ calls.reformat_query = 1 => calls.format_query = 1
    /\ pc = "format_and_retry" => qfa = 0 /\ calls.format_query = 0
    /\ pc = "reformat_and_retry" => qfa = 1 /\ calls.reformat_query = 0
    /\ (prev = "execute_sql" /\ ~state.execution_success /\ qfa = 2)
           => pc = "error_handler"

C9_Witness ==
    /\ prev = "execute_sql"
    /\ ~state.execution_success
    /\ qfa = 2
    /\ calls.format_query = 1
    /\ calls.reformat_query = 1

\* C10 as stated: at END exactly one of execution_success and a non-null
\* error holds.
C10_ExactlyOne ==
    pc = "END" => (state.execution_success <=> state.error = None)

\* C10, amended: at END at least one of the two holds, and both hold only
\* when the answer formatting or the save failed after a successful execution.
C10_AtLeastOne ==
    pc = "END" =>
        /\ state.execution_success \/ state.error # None
        /\ (state.execution_success /\ state.error # None)
               => state.error_type \in {"formatting", "save"}
        /\ ~state.execution_success => prev = "error_handler"

C10_Witness ==
    /\ pc = "END"
    /\ state.execution_success
    /\ state.error # None
    /\ state.error_type = "save"

\* C11 as stated: for every question whose sanitized text (what is left after
\* removing every character outside letters, digits, whitespace and ? . , ' ")
\* is empty, validate_input fails with error_type=validation.
C11_EmptySanitizedFails ==
    [][(pc = "validate_input" /\ re_sub(state.user_query) = <<>>)
          => (state'.error_type = "validation" /\ state'.error # None)]_vars

\* The five kinds of error the nodes set, and the generic template's text.
ClaimKnownTypes == {"validation", "generation", "execution", "formatting", "save"}
ClaimGeneric == "An unexpected error occurred. Please try again."

\* C12: error_handler returns a non-empty formatted_answer for every value of
\* error_type (the generic template for None and for unrecognized values),
\* does not raise, calls no service and leaves error, error_type and every
\* other field as they were.
C12_ErrorHandlerTotal ==
    [][pc = "error_handler" =>
          /\ pc' \in {"generate_sql", "END"}
          /\ state'.formatted_answer \notin {None, ""}
          /\ state.error_type \notin ClaimKnownTypes =>
                 state'.formatted_answer =
                     "Error: " \o ClaimGeneric \o " Technical details: " \o state.error
          /\ state.error_type \in ClaimKnownTypes =>
                 state'.formatted_answer #
                     "Error: " \o ClaimGeneric \o " Technical details: " \o state.error
          /\ state' = [state EXCEPT !.formatted_answer = state'.formatted_answer]
          /\ calls' = calls
          /\ store' = store]_vars

C12_Witness ==
    /\ prev = "error_handler"
    /\ state.error_type = "other"
    /\ state.error = None
    /\ state.formatted_answer =
           "Error: " \o ClaimGeneric \o " Technical details: " \o None

\* C13: when the answer-formatting service fails after a successful
\* execution, formatted_answer is the raw data preview, execution_success
\* stays true, and the run goes on to save_conversation and END, never to
\* error_handler.
C13_FormattingFallback ==
    /\ state.error = "Error formatting answer: " \o ExcText =>
           /\ state.execution_success
           /\ state.formatted_answer # None
           /\ state.formatted_answer = state.raw_data_summary
           /\ state.raw_data_summary \in {"Results: " \o ToString(n) \o " rows" :
                                             n \in 1..MaxRows} \cup {"dict result"}
           /\ pc \in {"save_conversation", "END"}
           /\ prev \in {"format_answer", "save_conversation"}
    /\ prev = "format_answer" =>
           /\ pc = "save_conversation"
           /\ state.execution_success
           /\ calls.answer = 1
    /\ prev = "save_conversation" =>
           /\ pc = "END"
           /\ state.execution_success
           /\ state.formatted_answer # None

C13_Witness ==
    /\ pc = "END"
    /\ prev = "save_conversation"
    /\ state.error = "Error formatting answer: " \o ExcText
    /\ state.error_type = "formatting"
    /\ state.formatted_answer = "Results: 1 rows"
    /\ Len(store) = 1

\* C14: when the conversation store fails to persist (the append returns
\* failure or raises), save_conversation sets error and error_type=save,
\* leaves every other field (formatted_answer, execution_success,
\* query_result, generated_sql, conversation_history) unchanged, and the run
\* ends at END.
C14_SaveFailureFrame ==
    [][(pc = "save_conversation" /\ store' = store) =>
          /\ state'.error # None
          /\ state'.error_type = "save"
          /\ state'.formatted_answer = state.formatted_answer
          /\ state'.execution_success = state.execution_success
          /\ state'.query_result = state.query_result
          /\ state'.generated_sql = state.generated_sql
          /\ state'.conversation_history = state.conversation_history
          /\ state' = [state EXCEPT !.error = state'.error, !.error_type = "save"]
          /\ pc' = "END"]_vars

C14_Witness ==
    /\ pc = "END"
    /\ prev = "save_conversation"
    /\ state.error = "Failed to save conversation"
    /\ state.error_type = "save"
    /\ state.formatted_answer = "answer"
    /\ store = <<>>

\* The nodes of the graph: at each of them the driver has a step to take.
ClaimNodes ==
    {"validate_input", "generate_sql", "validate_sql", "execute_sql",
     "format_answer", "save_conversation", "format_and_retry",
     "reformat_and_retry", "error_handler"}

\* C15 (scenario C): while every SQL text the generation service returned
\* contains a blocklisted keyword, each validate_sql step fails with
\* error_type=validation, error_handler sends the run back to generate_sql
\* while sql_generation_attempts<3, and the run ends at END after exactly 3
\* generation calls with error_type=validation and no execution,
\* reformulation or save call.
C15_ScenarioC ==
    genSeen = {"blocked"} =>
        /\ pc # "raised"
        /\ pc # "END" => pc \in ClaimNodes
        /\ visits <= 1 + 3 * max_attempts
        /\ calls.gen = state.sql_generation_attempts
        /\ calls.exec = 0 /\ calls.format_query = 0
        /\ calls.reformat_query = 0 /\ calls.save = 0
        /\ store = <<>>
        /\ prev = "validate_sql" =>
               /\ ~state.sql_valid
               /\ state.error_type = "validation"
               /\ pc = "error_handler"
        /\ prev = "error_handler" =>
               pc = IF state.sql_generation_attempts < 3
                    THEN "generate_sql" ELSE "END"
        /\ pc = "END" =>
               /\ prev = "error_handler"
               /\ calls.gen = 3
               /\ state.error_type = "validation"
               /\ state.formatted_answer # None

C15_Witness ==
    /\ pc = "END"
    /\ genSeen = {"blocked"}
    /\ calls.gen = 3
    /\ visits = 10
    /\ state.generated_sql = SqlUpdatedAt

\* C16 (scenario D): while every generated SQL passed validation and every
\* execution returned zero rows, the run does not save; it ends at END
\* through error_handler, after both reformulation rounds, with
\* error_type=execution, query_formatting_attempt=2 and
\* execution_retry_count=2.
C16_ScenarioD ==
    (genSeen \subseteq {"valid"} /\ execSeen = {"zero"}) =>
        /\ pc # "raised"
        /\ pc # "END" => pc \in ClaimNodes
        /\ visits <= VisitBound
        /\ calls.save = 0
        /\ store = <<>>
        /\ ~state.execution_success
        /\ calls.reformat_query = 1 => calls.format_query = 1
        /\ pc = "END" =>
               /\ prev = "error_handler"
               /\ state.error_type = "execution"
               /\ qfa = 2
               /\ state.execution_retry_count = 2
               /\ calls.format_query = 1
               /\ calls.reformat_query = 1

C16_Witness ==
    /\ pc = "END"
    /\ genSeen = {"valid"}
    /\ execSeen = {"zero"}
    /\ qfa = 2
    /\ state.execution_retry_count = 2
    /\ state.error_type = "execution"

\* C17 (scenario B): a first execution at query_formatting_attempt=0 that
\* returns zero rows leads to format_and_retry; when the regenerated SQL is
\* valid and its execution returns rows, the run ends successfully with
\* query_formatting_attempt=1, one call of the reformulation service, and
\* first_formatted_query given to the conversation store.
C17_ScenarioB ==
    /\ (prev = "execute_sql" /\ qfa = 0 /\ ExecKind(lastExec) = "zero"
            /\ lastExec # NoExec)
           => pc = "format_and_retry"
    /\ prev = "format_and_retry" =>
           /\ qfa = 1
           /\ pc = "generate_sql"
           /\ calls.format_query = 1
           /\ state.first_formatted_query = state.user_query
    /\ (qfa = 1 /\ prev = "validate_sql" /\ pc # "raised" /\ state.sql_valid)
           => pc = "execute_sql"
    /\ (qfa = 1 /\ prev = "execute_sql" /\ ExecKind(lastExec) = "rows"
            /\ lastExec # NoExec)
           => (state.execution_success /\ pc = "format_answer")
    /\ (qfa = 1 /\ state.execution_success) =>
           /\ pc \in {"format_answer", "save_conversation", "END"}
           /\ calls.format_query = 1
           /\ calls.reformat_query = 0
           /\ pc = "END" =>
                  /\ prev = "save_conversation"
                  /\ calls.save = 1
                  /\ saveArg = state.first_formatted_query

C17_Witness ==
    /\ pc = "END"
    /\ prev = "save_conversation"
    /\ qfa = 1
    /\ genSeen = {"valid"}
    /\ execSeen = {"zero", "rows"}
    /\ calls.exec = 2
    /\ calls.format_query = 1
    /\ saveArg = <<"b">>
    /\ Len(store) = 1

\* C19 as stated: when every generation call of an invocation fails and no
\* execution is reached, the run makes exactly 3 generation attempts and ends
\* at END through error_handler, without calling the reformulation service.
C19_GenerationOnlyFailure ==
    (genSeen = {"failed"} /\ calls.exec = 0) =>
        /\ pc # "raised"
        /\ calls.format_query = 0
        /\ calls.reformat_query = 0
        /\ pc = "END" => (prev = "error_handler" /\ calls.gen = 3)

\* C20: the router after execute_sql returns format_answer when
\* execution_success is true; otherwise format_and_retry when
\* query_formatting_attempt=0 and execution_retry_count<2, reformat_and_retry
\* when query_formatting_attempt=1 and execution_retry_count<3, and
\* error_handler in every other case; it returns nothing else, and the state
\* after the step is the one execute_sql_node returned.
C20_RouterAfterExecution ==
    /\ [](prev = "execute_sql" =>
            LET failed == ~state.execution_success
                erc == state.execution_retry_count
            IN  /\ pc \in {"format_answer", "format_and_retry",
                            "reformat_and_retry", "error_handler"}
                /\ pc = "format_answer" <=> state.execution_success
                /\ pc = "format_and_retry" <=> (failed /\ qfa = 0 /\ erc < 2)
                /\ pc = "reformat_and_retry" <=> (failed /\ qfa = 1 /\ erc < 3))
    /\ [][pc = "execute_sql" =>
              \E r \in ExecOutcomes : state' = execute_sql_node(state, r)]_vars

C20_Witness ==
    /\ prev = "execute_sql"
    /\ ~state.execution_success
    /\ qfa = 1
    /\ state.execution_retry_count = 3
    /\ pc = "error_handler"

\* The positions of the session's rows in the store, and the pair at a position.
ClaimRows(sid) == {i \in 1..Len(store) : store[i].session_id = sid}
ClaimPair(i) ==
    [user_query |-> store[i].user_query,
     system_response |-> store[i].system_response]

\* The min(3, n) most recently persisted pairs of the session, oldest first:
\* the j-th of k is the row with k - j later rows of the session.
ClaimRecent(sid) ==
    LET rows == ClaimRows(sid)
        k == IF Cardinality(rows) < 3 THEN Cardinality(rows) ELSE 3
        Later(i) == Cardinality({x \in rows : x > i})
    IN  [j \in 1..k |-> ClaimPair(CHOOSE i \in rows : Later(i) = k - j)]

\* C18 as stated: in every turn validate_input loads exactly the min(3, n)
\* most recently persisted pairs of the turn's session, in chronological
\* order, and none of another session.
C18_LoadsRecent ==
    prev = "validate_input" =>
        state.conversation_history = ClaimRecent(state.session_id)

\* C18, amended: validate_input loads exactly those pairs when the question
\* is not blank and the store's read succeeds; it loads nothing when the
\* read fails, and does not read the store for a blank question (it fails
\* with error_type=validation).  After a successful read the session's last
\* persisted pair is the last entry of the loaded history.
C18_LoadsRecentWhenRead ==
    prev = "validate_input" =>
        /\ histRead = "ok" =>
               /\ state.conversation_history = ClaimRecent(state.session_id)
               /\ \A i \in ClaimRows(state.session_id) :
                      (\A x \in ClaimRows(state.session_id) : x <= i) =>
                          state.conversation_history[
                              Len(state.conversation_history)] = ClaimPair(i)
        /\ histRead = "failed" => state.conversation_history = <<>>
        /\ histRead = "none" =>
               /\ state.conversation_history = <<>>
               /\ state.error_type = "validation"
               /\ calls.history = 0
        /\ histRead = "none" <=> strip(state.original_query) = <<>>

C18_Witness ==
    /\ prev = "validate_input"
    /\ histRead = "ok"
    /\ state.session_id = "s1"
    /\ Cardinality(ClaimRows("s1")) = 4
    /\ Len(store) = 4
    /\ store[1].user_query # store[2].user_query
    /\ store[3].user_query # store[4].user_query
    /\ Len(state.conversation_history) = 3

sga == state.sql_generation_attempts

\* C21: after error_handler the run goes back to generate_sql exactly when
\* sql_generation_attempts<3 and ends otherwise; sql_generation_attempts stays
\* within 0..3, equals the number of generation-service calls made in the
\* current formatting round, and the generation service is never called when
\* it is already 3.
C21_InnerRetryLoop ==
    /\ [](pc # "idle" =>
            /\ sga \in 0..3
            /\ sga = roundGen
            /\ prev = "error_handler" =>
                   pc = IF sga < 3 THEN "generate_sql" ELSE "END"
            /\ pc = "generate_sql" => sga < 3)
    /\ [][calls'.gen > calls.gen =>
              /\ pc = "generate_sql"
              /\ sga < 3
              /\ state'.sql_generation_attempts = sga + 1]_vars

C21_Witness ==
    /\ pc = "END"
    /\ prev = "error_handler"
    /\ sga = 3
    /\ roundGen = 3
    /\ qfa = 0
    /\ calls.gen = 3

\* C22: every step after validate_input that changes query_formatting_attempt
\* is format_and_retry (0 to 1) or reformat_and_retry (1 to 2); it sets
\* sql_generation_attempts=0, generated_sql=null and sql_generation_error=null,
\* adds exactly 1 to execution_retry_count and is followed by generate_sql;
\* format_and_retry also sets first_formatted_query to the new user_query.
C22_EscalationResets ==
    [][(pc \notin {"idle", "validate_input"}
            /\ state'.query_formatting_attempt # qfa) =>
          /\ \/ pc = "format_and_retry" /\ qfa = 0
                    /\ state'.query_formatting_attempt = 1
                    /\ state'.first_formatted_query = state'.user_query
             \/ pc = "reformat_and_retry" /\ qfa = 1
                    /\ state'.query_formatting_attempt = 2
                    /\ state'.first_formatted_query = state.first_formatted_query
          /\ state'.sql_generation_attempts = 0
          /\ state'.generated_sql = NoText
          /\ state'.sql_generation_error = None
          /\ state'.execution_retry_count = state.execution_retry_count + 1
          /\ pc' = "generate_sql"]_vars

C22_Witness ==
    /\ prev = "format_and_retry"
    /\ pc = "generate_sql"
    /\ qfa = 1
    /\ sga = 0
    /\ state.generated_sql = NoText
    /\ state.first_formatted_query = <<"b">>
    /\ calls.gen = 3

\* The router after execute_sql with its execution_retry_count tests removed.
ClaimRouteByAttempt(s) ==
    IF s.execution_success THEN "format_answer"
    ELSE IF s.query_formatting_attempt = 0 THEN "format_and_retry"
    ELSE IF s.query_formatting_attempt = 1 THEN "reformat_and_retry"
    ELSE "error_handler"

\* C24: in every state after validate_input execution_retry_count equals
\* query_formatting_attempt, hence never exceeds 2, and the router after
\* execute_sql decides as it would without its execution_retry_count tests.
C24_RetryCountIsAttempt ==
    pc \notin {"idle", "validate_input"} =>
        /\ state.execution_retry_count = qfa
        /\ state.execution_retry_count <= 2
        /\ prev = "execute_sql" => pc = ClaimRouteByAttempt(state)

C24_Witness ==
    /\ prev = "execute_sql"
    /\ pc = "reformat_and_retry"
    /\ qfa = 1
    /\ state.execution_retry_count = 1

\* C25 as stated: the execution service is called at most once in each
\* formatting round (so at most query_formatting_attempt + 1 times so far),
\* hence at most 3 times in one invocation.
C25_ExecOncePerRound ==
    /\ calls.exec <= qfa + 1
    /\ calls.exec <= 3

\* C25, amended: the execution service is called at most once in each of the
\* first two formatting rounds, where a failed execution leads to a
\* reformulation, and at most once per generation attempt in the last round,
\* where a failed execution leads to error_handler and from there back to
\* generate_sql while sql_generation_attempts<3; hence at most 3 times in the
\* last round and at most 5 times in one invocation.
C25_ExecPerRound ==
    /\ qfa = 0 => calls.exec <= 1
    /\ qfa = 1 => calls.exec <= 2
    /\ qfa = 2 => calls.exec <= 2 + roundGen
    /\ calls.exec <= 2 + max_attempts
    /\ (prev = "execute_sql" /\ ~state.execution_success) =>
           pc = IF qfa = 0 THEN "format_and_retry"
                ELSE IF qfa = 1 THEN "reformat_and_retry"
                ELSE "error_handler"
    /\ (prev = "error_handler" /\ state.error_type = "execution") =>
           /\ qfa = 2
           /\ pc = IF sga < 3 THEN "generate_sql" ELSE "END"

C25_Witness ==
    /\ pc = "END"
    /\ prev = "error_handler"
    /\ calls.exec = 5
    /\ calls.gen = 5
    /\ qfa = 2
    /\ state.original_query = <<"a">>

\* C26 as stated: every call of the execution service is given SQL that the
\* generation service returned since the previous execution call, so a failed
\* generation attempt never leads to executing the SQL an earlier attempt
\* left in generated_sql, and no generated SQL is executed twice.
C26_ExecutesFreshSql ==
    [][calls'.exec > calls.exec => sqlFresh]_vars

\* C27 as stated: when the question is empty or only whitespace, the
\* invocation calls none of the generation, execution, reformulation and
\* answer-formatting services, saves nothing to the conversation store, and
\* ends with error_type=validation.
C27_BlankQuestionStops ==
    (pc # "idle" /\ strip(state.original_query) = <<>>) =>
        /\ calls.gen = 0
        /\ calls.exec = 0
        /\ calls.format_query = 0
        /\ calls.reformat_query = 0
        /\ calls.answer = 0
        /\ calls.save = 0
        /\ pc = "END" => state.error_type = "validation"

\* C28 as stated: at END, whenever error is null, error_type is null too.
C28_NoStaleErrorType ==
    pc = "END" => (state.error = None => state.error_type = None)

\* C29: a run that ends through error_handler never calls the store's append;
\* save_conversation is only visited with execution_success=true, right after
\* format_answer, and only that step changes the store.
C29_FailedTurnNotSaved ==
    /\ [](/\ pc = "save_conversation" =>
                 (state.execution_success /\ prev = "format_answer")
          /\ calls.save > 0 => (state.execution_success /\ pc = "END")
          /\ (pc = "END" /\ prev = "error_handler") =>
                 (calls.save = 0 /\ saveArg = NoText /\ store = <<>>))
    /\ [][store' # store =>
              (pc = "save_conversation" /\ state.execution_success)]_vars

C29_Witness ==
    /\ pc = "END"
    /\ prev = "error_handler"
    /\ state.error_type = "execution"
    /\ calls.exec = 3
    /\ calls.answer = 0
    /\ calls.save = 0
    /\ store = <<>>
    /\ state.original_query = <<"a">>

\* C30: every invocation, also one that reuses the session_id of an earlier
\* turn that ended in failure with its budgets used up, starts generate_sql
\* with query_formatting_attempt=0, sql_generation_attempts=0,
\* execution_retry_count=0 and generated_sql=null, having made no call to
\* the generation service yet, and keeps the session_id it started with to
\* the end.
C30_FreshBudgetEachTurn ==
    /\ []((pc = "generate_sql" /\ prev = "validate_input") =>
            /\ qfa = 0
            /\ sga = 0
            /\ state.execution_retry_count = 0
            /\ state.generated_sql = NoText
            /\ calls.gen = 0
            /\ roundGen = 0)
    /\ [][/\ pc' = "validate_input" =>
                 state'.session_id \in SessionIds \cup {FreshId(turn')}
          /\ pc \in ClaimNodes => state'.session_id = state.session_id]_vars

C30_Witness ==
    /\ pc = "END"
    /\ turn = 2
    /\ state.session_id = "s1"
    /\ earlier.session_id = "s1"
    /\ earlier.ended = "error_handler"
    /\ earlier.sql_generation_attempts = 3
    /\ earlier.query_formatting_attempt = 2
    /\ earlier.execution_retry_count = 2
    /\ calls.gen = 3 * max_attempts
    /\ qfa = 2

\* The rows of a session in the store, in order.
ClaimOwn(db, sid) ==
    LET Mine(r) == r.session_id = sid IN SelectSeq(db, Mine)

\* The run has come, after each number of node visits, to the node and the
\* state it would have come to alone on a store that holds only the rows its
\* session had before it started, and its session's rows are the ones it
\* would have left there.
ClaimAsIfAlone(run) ==
    LET sid == run.state.session_id
        own == ClaimOwn(store, sid)
        before == IF run.calls.save = 1 THEN SubSeq(own, 1, Len(own) - 1) ELSE own
        alone == Drive("validate_input",
                       initial_state(run.state.original_query, sid, sid),
                       before, run.visits)
    IN  /\ run.pc = alone.pc
        /\ run.state = alone.state
        /\ own = alone.store

\* C23: two invocations for distinct session_ids whose node steps interleave
\* do not affect each other: at every point each run's state and the
\* conversation records of its session are what they would be had the run
\* been made alone, and no step of a run changes the rows of another session
\* or the other run.
C23_SessionsIndependent ==
    /\ [](ClaimAsIfAlone(Run) /\ ClaimAsIfAlone(parked))
    /\ [][/\ parked' = parked =>
                 \A sid \in {"s1", "s2", FreshId(2)} \ {state.session_id} :
                     ClaimOwn(store', sid) = ClaimOwn(store, sid)
          /\ parked' # parked => (parked' = Run /\ store' = store)]_vars

C23_Witness ==
    /\ pc = "END"
    /\ parked.pc = "END"
    /\ calls.save = 1
    /\ parked.calls.save = 1
    /\ qfa = 1
    /\ parked.state.query_formatting_attempt = 0
    /\ Len(state.conversation_history) = 3
    /\ Len(store) = 6
    /\ store[5].session_id = state.session_id
    /\ store[6].session_id = parked.state.session_id
====
